---- MODULE Spec2Model ----
(***************************************************************************)
(* Model of src/app.py: the Flask upload handler, the PDF extraction loop  *)
(* extract_text_from_pdf, the checkbox heuristic detect_checkboxes and the *)
(* report sinks save_extracted_data_to_file and generate_graph.            *)
(*                                                                         *)
(* Library calls are modelled by their documented behaviour:               *)
(*   cv2.threshold(.., THRESH_BINARY_INV)  dst = 0 if src > thresh else    *)
(*                                         maxval                          *)
(*   w / float(h)                          IEEE-754 binary64 division,     *)
(*                                         round-to-nearest-even           *)
(*   cv2.findContours / cv2.boundingRect   the list of bounding rectangles *)
(*                                         of a bitmap is an input         *)
(*   cv2.imdecode                          returns None on undecodable     *)
(*                                         bytes                           *)
(*   pytesseract.image_to_string           raises on a None image or a     *)
(*                                         missing engine                  *)
(***************************************************************************)
EXTENDS Integers, Sequences, FiniteSets, TLC

VARIABLES
    gray,           \* threshold: intensity of one grayscale pixel
    binary,         \* threshold: the binarized pixel, <<>> before the call
    image,          \* detect_checkboxes: bounding rectangles of the contours
    detected,       \* detect_checkboxes: the returned count, <<>> before
    tesseract,      \* whether the OCR engine at tesseract_cmd can be run
    request,        \* per request: the multipart form it carries
    pc,             \* per request: position in upload_file
    frame,          \* per request: locals of extract_text_from_pdf
    handle,         \* per request: the fitz document object it opened
    raised,         \* per request: the exception caught by upload_file
    extracted_data, \* per request: the value extract_text_from_pdf returned
    response,       \* per request: the HTTP response
    uploads,        \* files of UPLOAD_FOLDER
    outputs,        \* files of OUTPUT_FOLDER
    graphs          \* files of GRAPH_FOLDER

pureVars == <<gray, binary, image, detected>>
serverVars ==
    <<tesseract, request, pc, frame, handle, raised, extracted_data,
      response, uploads, outputs, graphs>>
vars == <<pureVars, serverVars>>

(***************************************************************************)
(* Bounds of the model.                                                    *)
(***************************************************************************)
MaxDim == 32        \* widths and heights of a single contour: 1..MaxDim
MaxContours == 2    \* contours of a bitmap drawn from KeyRects
MaxPages == 2       \* pages of a document

(***************************************************************************)
(* cv2.threshold(gray, 200, 255, cv2.THRESH_BINARY_INV)                    *)
(***************************************************************************)
ThreshValue == 200
MaxValue == 255

thresholdGE(src, thresh, maxval) == IF src >= thresh THEN 0 ELSE maxval

threshold(src, thresh, maxval) == IF src > thresh THEN 0 ELSE maxval

(***************************************************************************)
(* IEEE-754 binary64 division of two positive integers, as Python's        *)
(* w / float(h) computes it.  A float is [exp, frac]: the value            *)
(* 1.frac * 2^exp with FractionBits fraction bits.  The quotient bits come *)
(* from binary long division and are rounded to nearest, ties to even.     *)
(***************************************************************************)
FractionBits == 52

RECURSIVE Normalize(_, _, _)
Normalize(n, d, e) ==
    IF n < d THEN Normalize(2 * n, d, e - 1)
    ELSE IF n >= 2 * d THEN Normalize(n, 2 * d, e + 1)
    ELSE [n |-> n, d |-> d, e |-> e]

RECURSIVE DivBits(_, _, _, _)
DivBits(r, d, k, acc) ==
    IF k = 0 THEN [bits |-> acc, rem |-> r]
    ELSE IF 2 * r >= d THEN DivBits(2 * r - d, d, k - 1, Append(acc, 1))
    ELSE DivBits(2 * r, d, k - 1, Append(acc, 0))

\* bits + 1 on a fixed width; carry = 1 when every bit was 1.
Increment(bits) ==
    LET zeros == {i \in 1..Len(bits) : bits[i] = 0}
    IN  IF zeros = {}
        THEN [bits |-> [i \in 1..Len(bits) |-> 0], carry |-> 1]
        ELSE LET k == CHOOSE i \in zeros : \A j \in zeros : j <= i
             IN  [bits |-> [i \in 1..Len(bits) |->
                               IF i < k THEN bits[i]
                               ELSE IF i = k THEN 1 ELSE 0],
                  carry |-> 0]

FloatDiv(a, b) ==
    LET s == Normalize(a, b, 0)
        q == DivBits(s.n - s.d, s.d, FractionBits + 1, <<>>)
        frac == SubSeq(q.bits, 1, FractionBits)
        guard == q.bits[FractionBits + 1]
        sticky == q.rem > 0
        roundUp == guard = 1 /\ (sticky \/ frac[FractionBits] = 1)
        up == Increment(frac)
    IN  IF ~roundUp THEN [exp |-> s.e, frac |-> frac]
        ELSE [exp |-> s.e + up.carry, frac |-> up.bits]

BitsLE(x, y) ==
    \/ x = y
    \/ \E i \in 1..Len(x) :
          /\ x[i] < y[i]
          /\ \A j \in 1..(i - 1) : x[j] = y[j]

FloatLE(x, y) ==
    \/ x.exp < y.exp
    \/ x.exp = y.exp /\ BitsLE(x.frac, y.frac)

\* The literals 0.8 and 1.2: the doubles nearest to 8/10 and 12/10.
Lit_0_8 == FloatDiv(8, 10)
Lit_1_2 == FloatDiv(12, 10)

(***************************************************************************)
(* detect_checkboxes: the loop over the contours' bounding rectangles.     *)
(***************************************************************************)
MinSide == 10
MaxSide == 30

IsCheckboxStrict(w, h) ==
    LET aspect_ratio == FloatDiv(w, h)
    IN  /\ FloatLE(Lit_0_8, aspect_ratio) /\ FloatLE(aspect_ratio, Lit_1_2)
        /\ MinSide <= w /\ w < MaxSide
        /\ MinSide <= h /\ h < MaxSide

IsCheckbox(w, h) ==
    LET aspect_ratio == FloatDiv(w, h)
    IN  /\ FloatLE(Lit_0_8, aspect_ratio) /\ FloatLE(aspect_ratio, Lit_1_2)
        /\ MinSide <= w /\ w <= MaxSide
        /\ MinSide <= h /\ h <= MaxSide

RECURSIVE detect_checkboxes(_)
detect_checkboxes(contours) ==
    IF contours = <<>> THEN 0
    ELSE LET c == contours[Len(contours)]
             before == detect_checkboxes(SubSeq(contours, 1, Len(contours) - 1))
         IN  IF IsCheckbox(c.w, c.h) THEN before + 1 ELSE before

Rect(w, h) == [w |-> w, h |-> h]

\* Rectangles at the edges of the size window and of the ratio window.
KeyRects ==
    {Rect(10, 10), Rect(30, 30), Rect(18, 15), Rect(12, 15),
     Rect(9, 9), Rect(31, 31), Rect(20, 10), Rect(30, 24)}

RECURSIVE SeqsUpTo(_, _)
SeqsUpTo(S, n) ==
    IF n = 0 THEN {<<>>}
    ELSE LET shorter == SeqsUpTo(S, n - 1)
         IN  shorter \cup {Append(s, x) : s \in shorter, x \in S}

Images ==
    {<<Rect(w, h)>> : w \in 1..MaxDim, h \in 1..MaxDim}
        \cup SeqsUpTo(KeyRects, MaxContours)

(***************************************************************************)
(* Documents.  A PDF is either unparseable or a sequence of pages; a page  *)
(* carries its text layer, whether load_page, get_pixmap and the colour    *)
(* conversion succeed on it ("renders"), the bounding rectangles of the    *)
(* contours of its bitmap, and its embedded images in the order            *)
(* page.get_images lists them.                                             *)
(***************************************************************************)
ImageA == [decodable |-> TRUE, text |-> "A"]
ImageB == [decodable |-> TRUE, text |-> "B"]
ImageBad == [decodable |-> FALSE, text |-> ""]

NoBoxes == <<>>
OneBox == <<Rect(10, 10)>>
TwoBoxes == <<Rect(10, 10), Rect(20, 10), Rect(30, 30)>>

Page(bitmap, images) ==
    [text |-> "txt", renders |-> TRUE, bitmap |-> bitmap, images |-> images]

Unrenderable ==
    [text |-> "txt", renders |-> FALSE, bitmap |-> NoBoxes, images |-> <<>>]

Pages ==
    {Page(NoBoxes, <<>>), Page(OneBox, <<>>), Page(TwoBoxes, <<>>),
     Page(NoBoxes, <<ImageA>>), Page(OneBox, <<ImageA, ImageB>>),
     Page(TwoBoxes, <<ImageB, ImageA>>), Page(NoBoxes, <<ImageBad>>),
     Page(OneBox, <<ImageA, ImageBad>>), Unrenderable}

Pdf(pages) == [valid |-> TRUE, pages |-> pages]
Corrupt == [valid |-> FALSE, pages |-> <<>>]

Docs == {Pdf(p) : p \in SeqsUpTo(Pages, MaxPages)} \cup {Corrupt}

DocsSmall ==
    {Corrupt, Pdf(<<>>), Pdf(<<Page(OneBox, <<ImageA>>)>>),
     Pdf(<<Page(TwoBoxes, <<>>), Page(NoBoxes, <<ImageBad>>)>>)}

(***************************************************************************)
(* File names.  A client file name is [dir, stem, ext]; '' is EmptyName.   *)
(***************************************************************************)
Name(dir, stem, ext) == [dir |-> dir, stem |-> stem, ext |-> ext]
EmptyName == Name("", "", "")
RawNames == {Name("", "a", ".pdf"), Name("../", "a", ".pdf"), Name("", "b", ".pdf")}

\* werkzeug.utils.secure_filename: directory parts do not survive.
secure_filename(filename) == Name("", filename.stem, filename.ext)

\* os.path.splitext(filename)[0]
splitext0(filename) == filename.stem

SecuredNames == {secure_filename(f) : f \in RawNames}
BaseNames == {splitext0(f) : f \in SecuredNames}

Form(has_file, filename, body) ==
    [has_file |-> has_file, filename |-> filename, body |-> body]

FormsOf(docs, names) ==
    {Form(TRUE, f, d) : f \in names, d \in docs}
        \cup {Form(FALSE, EmptyName, Corrupt), Form(TRUE, EmptyName, Corrupt)}

(***************************************************************************)
(* Names bound in the module namespace of app.py when a request runs.      *)
(***************************************************************************)
ModuleGlobals ==
    {"Flask", "request", "jsonify", "render_template_string", "send_file",
     "secure_filename", "fitz", "pytesseract", "cv2", "sys", "np", "os",
     "json", "plt", "app", "HTML_TEMPLATE", "view_json", "index",
     "upload_file", "extract_text_from_pdf", "detect_checkboxes",
     "save_extracted_data_to_file", "generate_graph"}

(***************************************************************************)
(* Steps of extract_text_from_pdf.                                         *)
(***************************************************************************)
NewPageDataZeroBased(page_num, text) ==
    [page_number |-> page_num, text |-> text, images |-> <<>>]

NewPageData(page_num, text) ==
    [page_number |-> page_num + 1, text |-> text, images |-> <<>>]

AssignCheckboxes(checkbox_count, n) == n

AddCheckboxes(checkbox_count, n) == checkbox_count + n

ImageEntryZeroBased(img_index, ocr_text) ==
    [index |-> img_index, ocr_text |-> ocr_text]

ImageEntry(img_index, ocr_text) ==
    [index |-> img_index + 1, ocr_text |-> ocr_text]

\* cv2.imdecode: the decoded image, or None.
imdecode(img) ==
    IF img.decodable THEN [none |-> FALSE, text |-> img.text]
    ELSE [none |-> TRUE, text |-> ""]

image_to_string_degrading(decoded, engine) ==
    IF decoded.none THEN [raised |-> "", text |-> ""]
    ELSE IF ~engine THEN [raised |-> "TesseractNotFoundError", text |-> ""]
    ELSE [raised |-> "", text |-> decoded.text]

\* pytesseract.image_to_string: the text, or the exception it raises.
image_to_string(decoded, engine) ==
    IF decoded.none THEN [raised |-> "TypeError", text |-> ""]
    ELSE IF ~engine THEN [raised |-> "TesseractNotFoundError", text |-> ""]
    ELSE [raised |-> "", text |-> decoded.text]

NewFrame(pages) ==
    [pdf_document |-> pages, page_num |-> 0, data |-> <<>>,
     checkbox_count |-> 0, page_data |-> NewPageData(0, ""), img_index |-> 0]

(***************************************************************************)
(* generate_graph.  The series of the bar chart is built by lines 172-173; *)
(* line 170 reads the global GRAPH_FOLDER first.                           *)
(***************************************************************************)
ChartSeries(data) ==
    [page_numbers |-> [i \in 1..Len(data.pages) |-> data.pages[i].page_number],
     checkbox_counts |-> [i \in 1..Len(data.pages) |-> data.checkbox_count]]

generate_graph(filename, data) ==
    IF "GRAPH_FOLDER" \notin ModuleGlobals
    THEN [raised |-> "NameError", graph_path |-> "", series |-> <<>>]
    ELSE [raised |-> "", graph_path |-> splitext0(filename),
          series |-> <<ChartSeries(data)>>]

(***************************************************************************)
(* Initial states.                                                         *)
(***************************************************************************)
Idle(n) == [r \in 1..n |-> <<>>]

NoFiles(names) == [f \in names |-> <<>>]

ServerInit(forms) ==
    /\ request = forms
    /\ pc = [r \in DOMAIN forms |-> "start"]
    /\ frame = Idle(Len(forms))
    /\ handle = Idle(Len(forms))
    /\ raised = [r \in DOMAIN forms |-> ""]
    /\ extracted_data = Idle(Len(forms))
    /\ response = Idle(Len(forms))
    /\ uploads = NoFiles(SecuredNames)
    /\ outputs = NoFiles(BaseNames)
    /\ graphs = NoFiles(BaseNames)

PureIdle ==
    /\ gray = 0
    /\ binary = <<>>
    /\ image = <<>>
    /\ detected = <<>>

\* One request with any document, or two concurrent requests.
Init ==
    /\ PureIdle
    /\ tesseract \in BOOLEAN
    /\ \/ \E f \in FormsOf(Docs, {Name("", "a", ".pdf")}) : ServerInit(<<f>>)
       \/ \E f, g \in FormsOf(DocsSmall, RawNames) : ServerInit(<<f, g>>)

InitThreshold ==
    /\ gray \in 0..MaxValue
    /\ binary = <<>>
    /\ image = <<>>
    /\ detected = <<>>
    /\ tesseract = TRUE
    /\ ServerInit(<<>>)

InitDetect ==
    /\ gray = 0
    /\ binary = <<>>
    /\ image \in Images
    /\ detected = <<>>
    /\ tesseract = TRUE
    /\ ServerInit(<<>>)

(***************************************************************************)
(* The pure steps.                                                         *)
(***************************************************************************)
Binarize ==
    /\ binary = <<>>
    /\ binary' = <<threshold(gray, ThreshValue, MaxValue)>>
    /\ UNCHANGED <<gray, image, detected, serverVars>>

Detect ==
    /\ detected = <<>>
    /\ detected' = <<detect_checkboxes(image)>>
    /\ UNCHANGED <<gray, binary, image, serverVars>>

(***************************************************************************)
(* upload_file                                                             *)
(***************************************************************************)
Raise(r, exception) ==
    /\ raised' = [raised EXCEPT ![r] = exception]
    /\ pc' = [pc EXCEPT ![r] = "except"]

Respond(r, resp) ==
    /\ response' = [response EXCEPT ![r] = <<resp>>]
    /\ pc' = [pc EXCEPT ![r] = "done"]

RejectNoFilePart(r) ==
    /\ pc[r] = "start"
    /\ ~request[r].has_file
    /\ Respond(r, [status |-> 400, error |-> "No file part"])
    /\ UNCHANGED <<pureVars, tesseract, request, frame, handle, raised,
                   extracted_data, uploads, outputs, graphs>>

RejectNoFilename(r) ==
    /\ pc[r] = "start"
    /\ request[r].has_file
    /\ request[r].filename = EmptyName
    /\ Respond(r, [status |-> 400, error |-> "No selected file"])
    /\ UNCHANGED <<pureVars, tesseract, request, frame, handle, raised,
                   extracted_data, uploads, outputs, graphs>>

SaveUpload(r) ==
    /\ pc[r] = "start"
    /\ request[r].has_file
    /\ request[r].filename # EmptyName
    /\ LET filename == secure_filename(request[r].filename)
       IN  uploads' = [uploads EXCEPT ![filename] = <<request[r].body>>]
    /\ pc' = [pc EXCEPT ![r] = "open"]
    /\ UNCHANGED <<pureVars, tesseract, request, frame, handle, raised,
                   extracted_data, response, outputs, graphs>>

(***************************************************************************)
(* extract_text_from_pdf                                                   *)
(***************************************************************************)
OpenDocument(r) ==
    /\ pc[r] = "open"
    /\ LET file == uploads[secure_filename(request[r].filename)][1]
       IN  IF ~file.valid
           THEN /\ Raise(r, "FileDataError")
                /\ UNCHANGED <<frame, handle>>
           ELSE /\ frame' = [frame EXCEPT ![r] = <<NewFrame(file.pages)>>]
                /\ handle' = [handle EXCEPT
                                ![r] = <<[open |-> TRUE, content |-> file]>>]
                /\ pc' = [pc EXCEPT ![r] = "loop"]
                /\ UNCHANGED raised
    /\ UNCHANGED <<pureVars, tesseract, request, extracted_data, response,
                   uploads, outputs, graphs>>

BeginPage(r) ==
    /\ pc[r] = "loop"
    /\ LET f == frame[r][1]
           page == f.pdf_document[f.page_num + 1]
       IN  /\ f.page_num < Len(f.pdf_document)
           /\ IF ~page.renders
              THEN /\ Raise(r, "PageRenderError")
                   /\ UNCHANGED frame
              ELSE /\ frame' = [frame EXCEPT ![r] = <<[f EXCEPT
                        !.page_data = NewPageData(f.page_num, page.text),
                        !.checkbox_count =
                            AddCheckboxes(f.checkbox_count,
                                          detect_checkboxes(page.bitmap)),
                        !.img_index = 0]>>]
                   /\ pc' = [pc EXCEPT ![r] = "images"]
                   /\ UNCHANGED raised
    /\ UNCHANGED <<pureVars, tesseract, request, handle, extracted_data,
                   response, uploads, outputs, graphs>>

OcrImage(r) ==
    /\ pc[r] = "images"
    /\ LET f == frame[r][1]
           page == f.pdf_document[f.page_num + 1]
           ocr == image_to_string(imdecode(page.images[f.img_index + 1]),
                                  tesseract)
       IN  /\ f.img_index < Len(page.images)
           /\ IF ocr.raised # ""
              THEN /\ Raise(r, ocr.raised)
                   /\ UNCHANGED frame
              ELSE /\ frame' = [frame EXCEPT ![r] = <<[f EXCEPT
                        !.page_data.images =
                            Append(@, ImageEntry(f.img_index, ocr.text)),
                        !.img_index = @ + 1]>>]
                   /\ UNCHANGED <<pc, raised>>
    /\ UNCHANGED <<pureVars, tesseract, request, handle, extracted_data,
                   response, uploads, outputs, graphs>>

EndPage(r) ==
    /\ pc[r] = "images"
    /\ LET f == frame[r][1]
           page == f.pdf_document[f.page_num + 1]
       IN  /\ f.img_index = Len(page.images)
           /\ frame' = [frame EXCEPT ![r] = <<[f EXCEPT
                 !.data = Append(@, f.page_data),
                 !.page_num = @ + 1]>>]
    /\ pc' = [pc EXCEPT ![r] = "loop"]
    /\ UNCHANGED <<pureVars, tesseract, request, handle, raised,
                   extracted_data, response, uploads, outputs, graphs>>

ReturnDocument(r) ==
    /\ pc[r] = "loop"
    /\ LET f == frame[r][1]
       IN  /\ f.page_num = Len(f.pdf_document)
           /\ extracted_data' = [extracted_data EXCEPT ![r] =
                 <<[pages |-> f.data, checkbox_count |-> f.checkbox_count]>>]
    /\ frame' = [frame EXCEPT ![r] = <<>>]
    /\ pc' = [pc EXCEPT ![r] = "save_json"]
    /\ UNCHANGED <<pureVars, tesseract, request, handle, raised, response,
                   uploads, outputs, graphs>>

(***************************************************************************)
(* The report sinks and the end of upload_file.                            *)
(***************************************************************************)
\* save_extracted_data_to_file; "by" records the writing request.
SaveJson(r) ==
    /\ pc[r] = "save_json"
    /\ LET base_filename == splitext0(secure_filename(request[r].filename))
       IN  outputs' = [outputs EXCEPT ![base_filename] =
                          <<[data |-> extracted_data[r][1], by |-> r]>>]
    /\ pc' = [pc EXCEPT ![r] = "graph"]
    /\ UNCHANGED <<pureVars, tesseract, request, frame, handle, raised,
                   extracted_data, response, uploads, graphs>>

GenerateGraph(r) ==
    /\ pc[r] = "graph"
    /\ LET filename == secure_filename(request[r].filename)
           g == generate_graph(filename, extracted_data[r][1])
       IN  IF g.raised # ""
           THEN /\ Raise(r, g.raised)
                /\ UNCHANGED <<graphs, response>>
           ELSE /\ graphs' = [graphs EXCEPT ![g.graph_path] =
                                 <<[series |-> g.series[1], by |-> r]>>]
                /\ Respond(r, [status |-> 200,
                               output_filename |-> splitext0(filename),
                               graph_path |-> g.graph_path])
                /\ UNCHANGED raised
    /\ UNCHANGED <<pureVars, tesseract, request, frame, handle,
                   extracted_data, uploads, outputs>>

\* except Exception as e: the traceback, and with it the frame of
\* extract_text_from_pdf, is dropped when the handler ends.
HandleException(r) ==
    /\ pc[r] = "except"
    /\ Respond(r, [status |-> 500, error |-> raised[r]])
    /\ frame' = [frame EXCEPT ![r] = <<>>]
    /\ UNCHANGED <<pureVars, tesseract, request, handle, raised,
                   extracted_data, uploads, outputs, graphs>>

\* The code never calls pdf_document.close(): the document is closed only
\* if and when the interpreter finalizes the unreachable object.
Finalize(r) ==
    /\ handle[r] # <<>>
    /\ handle[r][1].open
    /\ frame[r] = <<>>
    /\ handle' = [handle EXCEPT ![r] = <<[@[1] EXCEPT !.open = FALSE]>>]
    /\ UNCHANGED <<pureVars, tesseract, request, pc, frame, raised,
                   extracted_data, response, uploads, outputs, graphs>>

Next ==
    \/ \E r \in DOMAIN request : RejectNoFilePart(r)
    \/ \E r \in DOMAIN request : RejectNoFilename(r)
    \/ \E r \in DOMAIN request : SaveUpload(r)
    \/ \E r \in DOMAIN request : OpenDocument(r)
    \/ \E r \in DOMAIN request : BeginPage(r)
    \/ \E r \in DOMAIN request : OcrImage(r)
    \/ \E r \in DOMAIN request : EndPage(r)
    \/ \E r \in DOMAIN request : ReturnDocument(r)
    \/ \E r \in DOMAIN request : SaveJson(r)
    \/ \E r \in DOMAIN request : GenerateGraph(r)
    \/ \E r \in DOMAIN request : HandleException(r)
    \/ \E r \in DOMAIN request : Finalize(r)

Spec == Init /\ [][Next]_vars

SpecThreshold == InitThreshold /\ [][Binarize]_vars

SpecDetect == InitDetect /\ [][Detect]_vars

(***************************************************************************)
(* Properties.                                                             *)
(***************************************************************************)
Requests == DOMAIN request

Returned(r) == extracted_data[r] # <<>>

\* The pages of the document the extraction of request r opened.
Opened(r) == handle[r][1].content.pages

RECURSIVE SumOfCounts(_)
SumOfCounts(pages) ==
    IF pages = <<>> THEN 0
    ELSE detect_checkboxes(Head(pages).bitmap) + SumOfCounts(Tail(pages))

\* C1: a returned document of an N-page PDF has exactly N page records and
\* the record at position i has page_number i; while the loop runs, after k
\* pages the accumulated list holds exactly the records of pages 1..k.
C1_PagesNumbered ==
    \A r \in Requests :
        /\ frame[r] # <<>> =>
              LET f == frame[r][1]
              IN  /\ Len(f.data) = f.page_num
                  /\ \A i \in 1..Len(f.data) : f.data[i].page_number = i
        /\ Returned(r) =>
              LET d == extracted_data[r][1]
              IN  /\ Len(d.pages) = Len(Opened(r))
                  /\ \A i \in 1..Len(d.pages) : d.pages[i].page_number = i

C1_Witness ==
    \E r \in Requests :
        /\ Returned(r)
        /\ Len(Opened(r)) >= 2
        /\ extracted_data[r][1].pages[2].page_number = 2

\* C2: the checkbox_count of a returned document is the sum over its pages
\* of the count detect_checkboxes gives for the page's bitmap; 0 for a
\* document without pages.
C2_CountIsSumOverPages ==
    \A r \in Requests :
        Returned(r) =>
            extracted_data[r][1].checkbox_count = SumOfCounts(Opened(r))

C2_Witness ==
    \E r \in Requests :
        /\ Returned(r)
        /\ Opened(r) = <<Page(TwoBoxes, <<>>), Page(NoBoxes, <<>>)>>
        /\ extracted_data[r][1].checkbox_count = 2

\* The record built from page q lists q's first n images, in order, with
\* index j at position j.
ImagesListed(record, q, n) ==
    /\ Len(record.images) = n
    /\ \A j \in 1..n :
          /\ record.images[j].index = j
          /\ record.images[j].ocr_text = q.images[j].text

\* C3: every page record has one images entry per embedded image of its
\* page, in enumeration order, with index values 1..len(images) restarting
\* on every page; no embedded image gives an empty list.
C3_ImagesIndexed ==
    \A r \in Requests :
        /\ Returned(r) =>
              \A i \in 1..Len(extracted_data[r][1].pages) :
                  ImagesListed(extracted_data[r][1].pages[i], Opened(r)[i],
                               Len(Opened(r)[i].images))
        /\ frame[r] # <<>> =>
              LET f == frame[r][1]
              IN  /\ \A i \in 1..Len(f.data) :
                        ImagesListed(f.data[i], f.pdf_document[i],
                                     Len(f.pdf_document[i].images))
                  /\ pc[r] = "images" =>
                        ImagesListed(f.page_data,
                                     f.pdf_document[f.page_num + 1],
                                     f.img_index)

C3_Witness ==
    \E r \in Requests :
        /\ Returned(r)
        /\ Opened(r) = <<Page(OneBox, <<ImageA, ImageB>>),
                         Page(TwoBoxes, <<ImageB, ImageA>>)>>
        /\ extracted_data[r][1].pages[2].images =
              <<[index |-> 1, ocr_text |-> "B"], [index |-> 2, ocr_text |-> "A"]>>

\* The classification of the claim, in exact rational arithmetic:
\* 0.8 <= w/h <= 1.2, 10 <= w <= 30, 10 <= h <= 30.
Qualifies(c) ==
    /\ 8 * c.h <= 10 * c.w /\ 10 * c.w <= 12 * c.h
    /\ 10 <= c.w /\ c.w <= 30
    /\ 10 <= c.h /\ c.h <= 30

\* C4: detect_checkboxes returns the number of contours whose bounding
\* rectangle has 0.8 <= w/h <= 1.2, 10 <= w <= 30 and 10 <= h <= 30, bounds
\* inclusive: 10x10, 30x30 and 18x15 count, 9x9, 31x31 and 20x10 do not.
C4_CountsQualifyingContours ==
    detected # <<>> =>
        /\ detected[1] = Cardinality({i \in DOMAIN image : Qualifies(image[i])})
        /\ image \in {<<Rect(10, 10)>>, <<Rect(30, 30)>>, <<Rect(18, 15)>>}
              => detected[1] = 1
        /\ image \in {<<>>, <<Rect(9, 9)>>, <<Rect(31, 31)>>, <<Rect(20, 10)>>}
              => detected[1] = 0

C4_Witness ==
    /\ image = <<Rect(18, 15), Rect(30, 30)>>
    /\ detected = <<2>>

\* C5 as claimed: intensity >= 200 gives background 0, intensity < 200
\* gives foreground 255.
C5_AtLeast200IsBackground ==
    binary # <<>> =>
        /\ gray >= 200 => binary[1] = 0
        /\ gray < 200 => binary[1] = 255

\* C5 amended: intensity > 200 gives background 0, intensity <= 200
\* (200 included) gives foreground 255, for all intensities 0..255.
C5_Above200IsBackground ==
    binary # <<>> =>
        /\ gray > 200 => binary[1] = 0
        /\ gray <= 200 => binary[1] = 255

C5_Witness ==
    /\ gray = 200
    /\ binary = <<255>>

ExtractionErrors ==
    {"FileDataError", "PageRenderError", "TypeError", "TesseractNotFoundError"}

\* No step of the extraction of these pages can fail.
NothingFails(pages) ==
    \A i \in 1..Len(pages) :
        /\ pages[i].renders
        /\ \A j \in 1..Len(pages[i].images) :
              pages[i].images[j].decodable /\ tesseract

\* C6: extraction is all-or-nothing.  A document is returned only if no
\* step failed on any page or image; a request whose extraction failed has
\* no returned document and has written no JSON artifact.
C6_AllOrNothing ==
    \A r \in Requests :
        /\ Returned(r) => NothingFails(Opened(r))
        /\ raised[r] \in ExtractionErrors =>
              /\ ~Returned(r)
              /\ \A b \in DOMAIN outputs :
                    outputs[b] # <<>> => outputs[b][1].by # r

C6_Witness ==
    \E r \in Requests :
        /\ pc[r] = "done"
        /\ raised[r] = "TypeError"
        /\ Opened(r) = <<Page(NoBoxes, <<ImageA>>), Page(NoBoxes, <<ImageBad>>)>>
        /\ response[r][1].status = 500
        /\ ~Returned(r)

\* C7: once the extraction of a request has ended, by return or by
\* failure, the document it opened is closed.
C7_HandleReleased ==
    \A r \in Requests :
        (handle[r] # <<>> /\ pc[r] \in {"save_json", "graph", "except", "done"})
            => ~handle[r][1].open

\* C8: every request extracts exactly the bytes it uploaded.
C8_ExtractsOwnUpload ==
    \A r \in Requests :
        /\ handle[r] # <<>> => handle[r][1].content = request[r].body
        /\ raised[r] = "FileDataError" => ~request[r].body.valid

\* C9: in the series generate_graph builds from the extracted document,
\* the bar of each page is that page's own checkbox count.
C9_BarsArePerPageCounts ==
    \A r \in Requests :
        pc[r] = "graph" =>
            LET series == ChartSeries(extracted_data[r][1])
            IN  \A i \in 1..Len(Opened(r)) :
                    series.checkbox_counts[i] =
                        detect_checkboxes(Opened(r)[i].bitmap)

\* C10: a request with a file part and a file name whose extraction
\* returned ends in the success response, with the JSON artifact and the
\* graph written.
C10_SuccessResponse ==
    \A r \in Requests :
        (pc[r] = "done" /\ Returned(r)) =>
            /\ response[r][1].status = 200
            /\ graphs[splitext0(secure_filename(request[r].filename))] # <<>>
====
